---- MODULE Spec2Model ----
(***************************************************************************)
(* The relay of carlostoek/ClienteGame: src/bot.py (update handlers,       *)
(* session ids, ActionDispatcher) and src/dispatcher.py (MessageDispatcher).*)
(*                                                                         *)
(* Every update is handled by one coroutine ("cycle").  A coroutine runs   *)
(* without interruption between two awaits of network I/O, so an action of *)
(* the model is the code between two such awaits; the completion of the    *)
(* awaited I/O (the backend's answer, the platform's answer) is a step of  *)
(* the environment that stores its result in the cycle's "reply".          *)
(*                                                                         *)
(* Python's None / a missing dict key is <<>>, a present value v is <<v>>. *)
(***************************************************************************)
EXTENDS Integers, Sequences, FiniteSets, TLC

\* Bounds of the model.
NumCycles == 2
NumChats == 2
MaxExplicitId == 1

Cycles == 1..NumCycles
Chats == 1..NumChats

None == <<>>
Some(v) == <<v>>

\* Python truthiness of an optional integer: None and 0 are falsy.
TruthyInt(x) == x # None /\ x[1] # 0
\* Python truthiness of an optional string: None and "" are falsy.
TruthyStr(x) == x # None /\ x[1] # ""

---------------------------------------------------------------------------
\* Inputs.

\* The keys of ActionDispatcher.handlers / MessageDispatcher.handlers.
Registered == {"reply", "show_menu", "send_photo", "edit_message", "delete_message"}

\* Action names a backend may send: the registered ones, a case variant, the
\* empty string; or no "action" key at all.
ActionNames == Registered \cup {"Reply", ""}
TargetedActions == {"edit_message", "delete_message"}

\* data.message_id as the backend may supply it.
ExplicitIds == {Some(i) : i \in 0..MaxExplicitId}

\* response.get("data", {}) when it is a mapping: the keys the handlers read
\* (each may be missing).
Data(m, t, b) == [message_id |-> m, text |-> t, buttons |-> b]

\* response.get("data", {}) when the backend sent a JSON value that is no
\* mapping: null, a list, a string, a number.
JsonTypesNotMapping == {"null", "array", "string", "number"}
NotMapping(t) == [json |-> t]

\* isinstance-free Python: a mapping has .get, any other value raises
\* AttributeError on data.get(...).
IsMapping(data) == "message_id" \in DOMAIN data

\* The backend's decoded JSON object: response.get("action"),
\* response.get("data", {}), response.get("user_role").
Response(a, m, r) == [action |-> a, data |-> Data(m, None, None), user_role |-> r]

RolesSent == {None, Some("admin")}

\* Responses whose data is no mapping, under a registered action name.
ResponsesNotMapping ==
    {[action |-> Some(n), data |-> NotMapping(t), user_role |-> None] :
        n \in Registered, t \in JsonTypesNotMapping}

Responses ==
    {Response(a, None, r) : a \in {None} \cup {Some(n) : n \in ActionNames}, r \in RolesSent}
    \cup {Response(Some(n), m, r) : n \in TargetedActions, m \in ExplicitIds, r \in RolesSent}
    \cup ResponsesNotMapping

EmptyResponse == Response(None, None, None)

\* What the HTTP exchange of send_to_server can end with: session.post raises
\* (connection refused, timeout), or a response arrives, of any status, whose
\* body resp.json() decodes or fails to decode.
Statuses == {200, 500}
BackendOutcomes ==
    {[kind |-> "transport_error"]}
    \cup {[kind |-> "bad_body", status |-> s] : s \in Statuses}
    \cup {[kind |-> "json", status |-> s, body |-> r] : s \in Statuses, r \in Responses}

\* message.text of an inbound message: "/start" is routed to start_handler by
\* the CommandStart filter, every other message to universal_message_handler.
OtherTexts == {"/help", "hi"}
StartsWithSlash(text) == text \in {"/start", "/help"}

Dispatchers == {"ActionDispatcher", "MessageDispatcher"}

---------------------------------------------------------------------------
\* State.

VARIABLES
    session_ids,        \* bot.session_ids: chat -> optional session token
    next_uuid,          \* the next value uuid4() returns (every value is new)
    user_roles,         \* bot.user_roles: chat -> optional role
    last_bot_message,   \* dispatcher -> its _last_bot_message: chat -> optional message
    next_message_id,    \* the platform's next message id
    cyc                 \* cycle -> the coroutine handling one update

vars == <<session_ids, next_uuid, user_roles, last_bot_message, next_message_id, cyc>>

\* A cycle: where its coroutine is suspended (pc), the update's kind and chat,
\* the payload in flight to the backend, the handler's local `response` while
\* the role menu is awaited (resp), the platform call awaited (op) and the
\* platform's answer to it (reply); and, kept for the record, the response
\* that was given to dispatch (dispatched), the platform call that dispatch
\* issued (issued), whether callback.answer() was called (acked) and which
\* failure happened in it (fault): the backend exchange, the role menu's
\* call, a handler's data.get on a value that is no mapping, the dispatcher's
\* platform call or callback.answer(). It also keeps the messages the
\* platform created for it: the role menu (menu) and the message its
\* dispatcher's send returned (sent).
IdleCycle ==
    [pc |-> "idle", kind |-> "none", chat |-> 1, payload |-> None, resp |-> None,
     op |-> None, reply |-> None, dispatched |-> None, issued |-> None,
     acked |-> FALSE, fault |-> None, menu |-> None, sent |-> None]

Init ==
    /\ session_ids = [c \in Chats |-> None]
    /\ next_uuid = 1
    /\ user_roles = [c \in Chats |-> None]
    /\ last_bot_message = [d \in Dispatchers |-> [c \in Chats |-> None]]
    /\ next_message_id = 1
    /\ cyc = [p \in Cycles |-> IdleCycle]

---------------------------------------------------------------------------
\* bot.py: sessions, payloads, the backend exchange.

\* A get_session_id that lost its "if chat_id not in session_ids".
session_ids_always_new(sids, chat_id, fresh) == [sids EXCEPT ![chat_id] = Some(fresh)]

\* session_ids after get_session_id(chat_id), uuid4() returning `fresh`.
session_ids_after_get(sids, chat_id, fresh) ==
    IF sids[chat_id] = None THEN [sids EXCEPT ![chat_id] = Some(fresh)] ELSE sids

\* get_session_id's return value.
get_session_id(sids, chat_id, fresh) == session_ids_after_get(sids, chat_id, fresh)[chat_id][1]

\* build_payload_from_message / build_payload_from_callback: the fields the
\* relay computes (the copied user and update fields are left out).
build_payload(sids, chat_id, fresh, message_type) ==
    [chat_id |-> chat_id,
     session_id |-> get_session_id(sids, chat_id, fresh),
     message_type |-> message_type]

\* universal_message_handler's message_type.
universal_message_type(text) == IF StartsWithSlash(text) THEN "command" ELSE "text"

\* send_to_server's return value once a response has arrived: the status is
\* never looked at; a body that does not decode gives {}.
send_to_server(outcome) ==
    IF outcome.kind = "bad_body" THEN EmptyResponse ELSE outcome.body

\* Whether session.post raised: nothing in send_to_server or in the handlers
\* catches it.
send_to_server_raises(outcome) == outcome.kind = "transport_error"

---------------------------------------------------------------------------
\* The dispatchers.  A handler runs up to the platform call it awaits
\* ("await", with the call in `op`) or returns without calling ("return");
\* `last` is the dispatcher's _last_bot_message after that part.

Call(api, chat_id, message_id, action) ==
    [api |-> api, chat_id |-> chat_id, message_id |-> message_id, action |-> action,
     text |-> None, markup |-> None]

\* The call with its text= and reply_markup= arguments.
CallWith(call, text, markup) == [call EXCEPT !.text = Some(text), !.markup = markup]

\* dict.get(key, default) on a key that may be missing.
dict_get(value, default) == IF value = None THEN default ELSE value[1]

InlineKeyboardButton(text, callback_data) == [text |-> text, callback_data |-> callback_data]

\* A keyboard that puts all the buttons in one row.
keyboard_rows_one_row(buttons_cfg) ==
    IF buttons_cfg = <<>> THEN <<>>
    ELSE <<[i \in 1..Len(buttons_cfg) |->
              InlineKeyboardButton(dict_get(buttons_cfg[i].text, ""),
                                   dict_get(buttons_cfg[i].callback_data, ""))]>>

\* [[InlineKeyboardButton(text=btn.get("text", ""),
\*    callback_data=btn.get("callback_data", ""))] for btn in buttons_cfg]
keyboard_rows(buttons_cfg) ==
    IF buttons_cfg = <<>> THEN <<>>
    ELSE [i \in 1..Len(buttons_cfg) |->
            <<InlineKeyboardButton(dict_get(buttons_cfg[i].text, ""),
                                   dict_get(buttons_cfg[i].callback_data, ""))>>]

Await(call, last) == [next |-> "await", op |-> Some(call), last |-> last]
Return(last) == [next |-> "return", op |-> None, last |-> last]
\* An exception leaves the handler before any platform call.
Raise(last) == [next |-> "raise", op |-> None, last |-> last]

\* A handler lookup that ignores the case of the name.
handlers_get_any_case(action) ==
    IF action = "Reply" THEN Some("reply")
    ELSE IF action \in Registered THEN Some(action) ELSE None

\* self.handlers.get(action): exact match on the key.
handlers_get(action) == IF action \in Registered THEN Some(action) ELSE None

\* ---- ActionDispatcher (bot.py)

AD_reply(chat_id, data, last) ==
    IF ~IsMapping(data) THEN Raise(last)
    ELSE Await(CallWith(Call("send_message", chat_id, None, "reply"),
                        dict_get(data.text, ""), None), last)

AD_show_menu(chat_id, data, last) ==
    IF ~IsMapping(data) THEN Raise(last)
    ELSE
    LET buttons == keyboard_rows(dict_get(data.buttons, <<>>))
        markup == IF buttons # <<>> THEN Some(buttons) ELSE None
    IN  Await(CallWith(Call("send_message", chat_id, None, "show_menu"),
                       dict_get(data.text, ""), markup), last)

AD_send_photo(chat_id, data, last) ==
    IF ~IsMapping(data) THEN Raise(last)
    ELSE Await(Call("send_photo", chat_id, None, "send_photo"), last)

\* An _edit_message that lost its second "if not message_id: return None".
AD_edit_message_unchecked(chat_id, data, last) ==
    IF ~IsMapping(data) THEN Raise(last)
    ELSE
    LET given == data.message_id
        message_id == IF TruthyInt(given) THEN given ELSE last[chat_id]
    IN  Await(CallWith(Call("edit_message_text", chat_id, message_id, "edit_message"),
                       dict_get(data.text, ""), None), last)

AD_edit_message(chat_id, data, last) ==
    IF ~IsMapping(data) THEN Raise(last)
    ELSE
    LET given == data.message_id
        message_id == IF TruthyInt(given) THEN given ELSE last[chat_id]
    IN  IF ~TruthyInt(message_id) THEN Return(last)
        ELSE Await(CallWith(Call("edit_message_text", chat_id, message_id, "edit_message"),
                            dict_get(data.text, ""), None), last)

\* A delete that empties the whole cache instead of popping its chat's entry.
AD_delete_message_clears_all(chat_id, data, last) ==
    IF ~IsMapping(data) THEN Raise(last)
    ELSE
    LET given == data.message_id
        popped == IF TruthyInt(given) THEN last ELSE [c \in DOMAIN last |-> None]
        message_id == IF TruthyInt(given) THEN given ELSE last[chat_id]
    IN  IF ~TruthyInt(message_id) THEN Return(popped)
        ELSE Await(Call("delete_message", chat_id, message_id, "delete_message"), popped)

AD_delete_message(chat_id, data, last) ==
    IF ~IsMapping(data) THEN Raise(last)
    ELSE
    LET given == data.message_id
        popped == IF TruthyInt(given) THEN last ELSE [last EXCEPT ![chat_id] = None]
        message_id == IF TruthyInt(given) THEN given ELSE last[chat_id]
    IN  IF ~TruthyInt(message_id) THEN Return(popped)
        ELSE Await(Call("delete_message", chat_id, message_id, "delete_message"), popped)

\* ActionDispatcher.dispatch up to the handler's platform call.
AD_dispatch(chat_id, response, last) ==
    LET action == response.action
        data == response.data
    IN  IF ~TruthyStr(action) THEN Return(last)
        ELSE LET handler == handlers_get(action[1])
             IN CASE handler = None -> Return(last)
                  [] handler = Some("reply") -> AD_reply(chat_id, data, last)
                  [] handler = Some("show_menu") -> AD_show_menu(chat_id, data, last)
                  [] handler = Some("send_photo") -> AD_send_photo(chat_id, data, last)
                  [] handler = Some("edit_message") -> AD_edit_message(chat_id, data, last)
                  [] handler = Some("delete_message") -> AD_delete_message(chat_id, data, last)

\* What an ActionDispatcher handler does with the platform call's result: no
\* handler catches a failure; reply, show_menu and send_photo return the sent
\* message, edit_message and delete_message return None.
AD_handler_returns(action, result) ==
    IF result.kind = "error" THEN [raised |-> TRUE, message |-> None]
    ELSE IF action \in {"reply", "show_menu", "send_photo"}
         THEN [raised |-> FALSE, message |-> result.message]
         ELSE [raised |-> FALSE, message |-> None]

\* A dispatch that drops the handler's return value.
AD_record_nothing(last, chat_id, message) == last

\* dispatch after the handler returned: "if message: cache[chat] = message".
AD_record(last, chat_id, message) ==
    IF message # None THEN [last EXCEPT ![chat_id] = message] ELSE last

\* ---- MessageDispatcher (dispatcher.py)

MD_reply(chat_id, data, last) ==
    IF ~IsMapping(data) THEN Raise(last)
    ELSE Await(CallWith(Call("send_message", chat_id, None, "reply"),
                        dict_get(data.text, ""), None), last)

MD_show_menu(chat_id, data, last) ==
    IF ~IsMapping(data) THEN Raise(last)
    ELSE
    LET buttons_cfg == dict_get(data.buttons, <<>>)
        markup == IF buttons_cfg # <<>> THEN Some(keyboard_rows(buttons_cfg)) ELSE None
    IN  Await(CallWith(Call("send_message", chat_id, None, "show_menu"),
                       dict_get(data.text, ""), markup), last)

MD_send_photo(chat_id, data, last) ==
    IF ~IsMapping(data) THEN Raise(last)
    ELSE Await(Call("send_photo", chat_id, None, "send_photo"), last)

\* An edit that pops the cached id as delete does.
MD_edit_message_pops(chat_id, data, last) ==
    IF ~IsMapping(data) THEN Raise(last)
    ELSE
    LET given == data.message_id
        popped == IF TruthyInt(given) THEN last ELSE [last EXCEPT ![chat_id] = None]
        message_id == IF TruthyInt(given) THEN given ELSE last[chat_id]
    IN  IF ~TruthyInt(message_id) THEN Return(popped)
        ELSE LET buttons_cfg == data.buttons
                 markup == IF buttons_cfg # None /\ buttons_cfg[1] # <<>>
                           THEN Some(keyboard_rows(buttons_cfg[1])) ELSE None
             IN  Await(CallWith(Call("edit_message_text", chat_id, message_id, "edit_message"),
                                dict_get(data.text, ""), markup), popped)

MD_edit_message(chat_id, data, last) ==
    IF ~IsMapping(data) THEN Raise(last)
    ELSE
    LET given == data.message_id
        message_id == IF TruthyInt(given) THEN given ELSE last[chat_id]
    IN  IF ~TruthyInt(message_id) THEN Return(last)
        ELSE LET buttons_cfg == data.buttons
                 markup == IF buttons_cfg # None /\ buttons_cfg[1] # <<>>
                           THEN Some(keyboard_rows(buttons_cfg[1])) ELSE None
             IN  Await(CallWith(Call("edit_message_text", chat_id, message_id, "edit_message"),
                                dict_get(data.text, ""), markup), last)

\* A delete that reads the cached id with get and leaves the entry in place.
MD_delete_message_keeps(chat_id, data, last) ==
    IF ~IsMapping(data) THEN Raise(last)
    ELSE
    LET given == data.message_id
        message_id == IF TruthyInt(given) THEN given ELSE last[chat_id]
    IN  IF ~TruthyInt(message_id) THEN Return(last)
        ELSE Await(Call("delete_message", chat_id, message_id, "delete_message"), last)

MD_delete_message(chat_id, data, last) ==
    IF ~IsMapping(data) THEN Raise(last)
    ELSE
    LET given == data.message_id
        popped == IF TruthyInt(given) THEN last ELSE [last EXCEPT ![chat_id] = None]
        message_id == IF TruthyInt(given) THEN given ELSE last[chat_id]
    IN  IF ~TruthyInt(message_id) THEN Return(popped)
        ELSE Await(Call("delete_message", chat_id, message_id, "delete_message"), popped)

\* The chat of "event.message if isinstance(event, CallbackQuery) else event".
MD_target_chat(event) ==
    IF event.type = "CallbackQuery" THEN event.message.chat_id ELSE event.chat_id

\* MessageDispatcher.dispatch up to the handler's platform call.
MD_dispatch(event, response, last) ==
    LET action == response.action
        data == response.data
    IN  IF ~TruthyStr(action) THEN Return(last)
        ELSE LET handler == handlers_get(action[1])
                 chat_id == MD_target_chat(event)
             IN CASE handler = None -> Return(last)
                  [] handler = Some("reply") -> MD_reply(chat_id, data, last)
                  [] handler = Some("show_menu") -> MD_show_menu(chat_id, data, last)
                  [] handler = Some("send_photo") -> MD_send_photo(chat_id, data, last)
                  [] handler = Some("edit_message") -> MD_edit_message(chat_id, data, last)
                  [] handler = Some("delete_message") -> MD_delete_message(chat_id, data, last)

\* What a MessageDispatcher handler does with the platform call's result: only
\* _delete_message catches a failure.
MD_handler_returns(action, result) ==
    IF result.kind = "error"
    THEN IF action = "delete_message"
         THEN [raised |-> FALSE, message |-> None]
         ELSE [raised |-> TRUE, message |-> None]
    ELSE IF action \in {"reply", "show_menu", "send_photo"}
         THEN [raised |-> FALSE, message |-> result.message]
         ELSE [raised |-> FALSE, message |-> None]

\* dispatch after the handler returned: "if sent: cache[chat] = sent".
MD_record(last, chat_id, sent) ==
    IF sent # None THEN [last EXCEPT ![chat_id] = sent] ELSE last

---------------------------------------------------------------------------
\* The update handlers of bot.py (they use the ActionDispatcher that main()
\* installs before polling starts, so "if action_dispatcher" is true).

\* show_role_menu's platform call: target.answer(text, reply_markup=markup).
show_role_menu(chat_id, role) == Call("send_message", chat_id, None, "role_menu")

\* A show_role_menu whose sent message is recorded as the chat's last message.
show_role_menu_records(last, chat_id, message) == [last EXCEPT ![chat_id] = message]

\* The cache after show_role_menu's "await target.answer(...)" returned
\* `message`: the result is dropped.
show_role_menu_returns(last, chat_id, message) == last

\* callback.answer()
callback_answer(chat_id) == Call("answer_callback_query", chat_id, None, "answer")

\* The failure to record for the answer to a dispatcher's platform call.
CallFault(result) == IF result.kind = "error" THEN Some("handler_call") ELSE None

\* A cycle ends: the handler returns ("done"), or an exception leaves it
\* ("raised", with the failure that raised it).
Finished(c, how, fault) ==
    [c EXCEPT !.pc = how, !.payload = None, !.resp = None, !.op = None,
              !.reply = None, !.fault = fault]

\* The handler after dispatch returned: callback_handler awaits
\* callback.answer(), the message handlers return.
AfterDispatch(c) ==
    IF c.kind = "callback"
    THEN [c EXCEPT !.pc = "ack", !.payload = None, !.resp = None, !.reply = None,
                   !.op = Some(callback_answer(c.chat)), !.acked = TRUE]
    ELSE Finished(c, "done", c.fault)

\* Cycles are alike: they start in the order of their numbers.
MayStart(p) == cyc[p].pc = "idle" /\ (IF p = 1 THEN TRUE ELSE cyc[p - 1].pc # "idle")

\* A handler starts: builds the payload and awaits send_to_server(payload).
Begin(p, kind, chat_id, message_type) ==
    /\ session_ids' = session_ids_after_get(session_ids, chat_id, next_uuid)
    /\ next_uuid' = IF session_ids' = session_ids THEN next_uuid ELSE next_uuid + 1
    /\ cyc' = [cyc EXCEPT ![p] =
                 [IdleCycle EXCEPT !.pc = "exchange", !.kind = kind, !.chat = chat_id,
                     !.payload = Some(build_payload(session_ids, chat_id, next_uuid, message_type))]]
    /\ UNCHANGED <<user_roles, last_bot_message, next_message_id>>

start_handler(p) ==
    /\ MayStart(p)
    /\ \E chat_id \in Chats : Begin(p, "message", chat_id, "command")

universal_message_handler(p) ==
    /\ MayStart(p)
    /\ \E chat_id \in Chats, text \in OtherTexts :
         Begin(p, "message", chat_id, universal_message_type(text))

callback_handler(p) ==
    /\ MayStart(p)
    /\ \E chat_id \in Chats : Begin(p, "callback", chat_id, "callback")

\* action_dispatcher.dispatch(target, response), up to its first platform call.
\* `menu` is the role menu's message when show_role_menu ran before it.
EnterDispatch(p, response, menu) ==
    LET c == [cyc[p] EXCEPT !.menu = menu]
        last == IF menu = None THEN last_bot_message["ActionDispatcher"]
                ELSE show_role_menu_returns(last_bot_message["ActionDispatcher"], c.chat, menu)
        d == AD_dispatch(c.chat, response, last)
        e == [c EXCEPT !.dispatched = Some(response), !.issued = d.op]
    IN  /\ last_bot_message' = [last_bot_message EXCEPT !["ActionDispatcher"] = d.last]
        /\ cyc' = [cyc EXCEPT ![p] =
                     CASE d.next = "await" ->
                            [e EXCEPT !.pc = "call", !.payload = None, !.reply = None,
                                      !.resp = None, !.op = d.op]
                       [] d.next = "raise" -> Finished(e, "raised", Some("data_not_mapping"))
                       [] d.next = "return" -> AfterDispatch(e)]

\* The handler's code after "response = await send_to_server(payload)", the
\* exchange having ended with `outcome` (bot.py 163-169, 176-182, 188-195):
\* the role, the role menu, else the dispatch.
ResumeWith(p, outcome) ==
    LET c == cyc[p]
    IN  IF send_to_server_raises(outcome)
        THEN /\ cyc' = [cyc EXCEPT ![p] = Finished(c, "raised", Some("backend_transport"))]
             /\ UNCHANGED <<user_roles, last_bot_message>>
        ELSE LET response == send_to_server(outcome)
                 role == response.user_role
             IN  IF TruthyStr(role)
                 THEN /\ user_roles' = [user_roles EXCEPT ![c.chat] = role]
                      /\ cyc' = [cyc EXCEPT ![p] =
                                   [c EXCEPT !.pc = "role_menu", !.payload = None,
                                       !.resp = Some(response),
                                       !.op = Some(show_role_menu(c.chat, role[1]))]]
                      /\ UNCHANGED last_bot_message
                 ELSE /\ EnterDispatch(p, response, None)
                      /\ UNCHANGED user_roles

\* The HTTP exchange ends and the handler resumes.
HandlerResumes(p) ==
    /\ cyc[p].pc = "exchange"
    /\ \E outcome \in BackendOutcomes : ResumeWith(p, outcome)
    /\ UNCHANGED <<session_ids, next_uuid, next_message_id>>

\* The handler resumes with the platform's answer to show_role_menu's
\* target.answer: a failure leaves the handler as an exception; else the menu
\* message (recorded nowhere) has been sent and the dispatch follows.
RoleMenuReturns(p) ==
    /\ cyc[p].pc = "role_menu"
    /\ cyc[p].reply # None
    /\ IF cyc[p].reply[1].kind = "ok"
       THEN EnterDispatch(p, cyc[p].resp[1], cyc[p].reply[1].message)
       ELSE /\ cyc' = [cyc EXCEPT ![p] = Finished(cyc[p], "raised", Some("role_menu_call"))]
            /\ UNCHANGED last_bot_message
    /\ UNCHANGED <<session_ids, next_uuid, user_roles, next_message_id>>

\* The platform answers the call a coroutine awaits, show_role_menu's send or
\* a dispatcher handler's call: it fails, or succeeds; a send that succeeds
\* creates the new message, whose id no message had before. The coroutine
\* resumes in a later step.
PlatformResponds(p) ==
    /\ cyc[p].pc \in {"call", "role_menu"}
    /\ cyc[p].reply = None
    /\ \E ok \in BOOLEAN :
         IF ok /\ cyc[p].op[1].api \in {"send_message", "send_photo"}
         THEN /\ cyc' = [cyc EXCEPT ![p] =
                           IF cyc[p].pc = "role_menu"
                           THEN [cyc[p] EXCEPT
                                   !.reply = Some([kind |-> "ok", message |-> Some(next_message_id)]),
                                   !.menu = Some(next_message_id)]
                           ELSE [cyc[p] EXCEPT
                                   !.reply = Some([kind |-> "ok", message |-> Some(next_message_id)]),
                                   !.sent = Some(next_message_id)]]
              /\ next_message_id' = next_message_id + 1
         ELSE /\ cyc' = [cyc EXCEPT ![p].reply =
                           Some([kind |-> IF ok THEN "ok" ELSE "error", message |-> None])]
              /\ UNCHANGED next_message_id
    /\ UNCHANGED <<session_ids, next_uuid, user_roles, last_bot_message>>

\* ActionDispatcher: the handler resumes with the platform's answer; dispatch
\* records the returned message and returns to the update handler.
HandlerReturns(p) ==
    /\ cyc[p].pc = "call"
    /\ cyc[p].kind \in {"message", "callback"}
    /\ cyc[p].reply # None
    /\ LET c == cyc[p]
           r == AD_handler_returns(c.op[1].action, c.reply[1])
       IN  IF r.raised
           THEN /\ cyc' = [cyc EXCEPT ![p] = Finished(c, "raised", CallFault(c.reply[1]))]
                /\ UNCHANGED last_bot_message
           ELSE /\ last_bot_message' =
                     [last_bot_message EXCEPT !["ActionDispatcher"] =
                         AD_record(last_bot_message["ActionDispatcher"], c.chat, r.message)]
                /\ cyc' = [cyc EXCEPT ![p] = AfterDispatch([c EXCEPT !.fault = CallFault(c.reply[1])])]
    /\ UNCHANGED <<session_ids, next_uuid, user_roles, next_message_id>>

\* callback.answer() ends and callback_handler returns, or raises if it failed.
CallbackAnswered(p) ==
    /\ cyc[p].pc = "ack"
    /\ \E ok \in BOOLEAN :
         cyc' = [cyc EXCEPT ![p] =
                   IF ok THEN Finished(cyc[p], "done", cyc[p].fault)
                   ELSE Finished(cyc[p], "raised", Some("callback_answer"))]
    /\ UNCHANGED <<session_ids, next_uuid, user_roles, last_bot_message, next_message_id>>

---------------------------------------------------------------------------
\* MessageDispatcher (dispatcher.py) is used by no handler of bot.py: its
\* dispatch(event, response) is called directly, with a Message or a
\* CallbackQuery.

Events ==
    {[type |-> "Message", chat_id |-> c] : c \in Chats}
    \cup {[type |-> "CallbackQuery", message |-> [chat_id |-> c]] : c \in Chats}

\* MessageDispatcher.dispatch(event, response) up to the handler's platform call.
DispatchWith(p, event, response) ==
    LET d == MD_dispatch(event, response, last_bot_message["MessageDispatcher"])
        c == [IdleCycle EXCEPT !.kind = "direct", !.chat = MD_target_chat(event),
                               !.dispatched = Some(response), !.issued = d.op]
    IN  /\ response.user_role = None
        /\ last_bot_message' = [last_bot_message EXCEPT !["MessageDispatcher"] = d.last]
        /\ cyc' = [cyc EXCEPT ![p] =
                     CASE d.next = "await" -> [c EXCEPT !.pc = "call", !.op = d.op]
                       [] d.next = "raise" -> Finished(c, "raised", Some("data_not_mapping"))
                       [] d.next = "return" -> Finished(c, "done", None)]

\* A caller hands an event and a response to MessageDispatcher.dispatch.
MessageDispatcherDispatch(p) ==
    /\ MayStart(p)
    /\ \E event \in Events, response \in Responses : DispatchWith(p, event, response)
    /\ UNCHANGED <<session_ids, next_uuid, user_roles, next_message_id>>

\* MessageDispatcher: the handler resumes with the platform's answer.
MessageDispatcherReturns(p) ==
    /\ cyc[p].pc = "call"
    /\ cyc[p].kind = "direct"
    /\ cyc[p].reply # None
    /\ LET c == cyc[p]
           r == MD_handler_returns(c.op[1].action, c.reply[1])
       IN  IF r.raised
           THEN /\ cyc' = [cyc EXCEPT ![p] = Finished(c, "raised", CallFault(c.reply[1]))]
                /\ UNCHANGED last_bot_message
           ELSE /\ last_bot_message' =
                     [last_bot_message EXCEPT !["MessageDispatcher"] =
                         MD_record(last_bot_message["MessageDispatcher"], c.chat, r.message)]
                /\ cyc' = [cyc EXCEPT ![p] = Finished(c, "done", CallFault(c.reply[1]))]
    /\ UNCHANGED <<session_ids, next_uuid, user_roles, next_message_id>>

---------------------------------------------------------------------------

Next ==
    \E p \in Cycles :
        \/ start_handler(p)
        \/ universal_message_handler(p)
        \/ callback_handler(p)
        \/ HandlerResumes(p)
        \/ RoleMenuReturns(p)
        \/ PlatformResponds(p)
        \/ HandlerReturns(p)
        \/ CallbackAnswered(p)
        \/ MessageDispatcherDispatch(p)
        \/ MessageDispatcherReturns(p)

Spec == Init /\ [][Next]_vars

---------------------------------------------------------------------------
\* Three cycles of one chat, to interleave a cycle with two others of its
\* chat: the updates are /start messages and direct calls of
\* MessageDispatcher.dispatch, the backend answers (no transport failure, no
\* role), and the responses are reply, edit_message and delete_message without
\* message_id.

NumRaceCycles == 3
RaceCycles == 1..NumRaceCycles

RaceResponses ==
    {Response(Some(n), None, None) : n \in {"reply", "edit_message", "delete_message"}}
    \cup {Response(Some("edit_message"), Some(MaxExplicitId), None)}

InRace(c) ==
    \/ c.pc = "idle"
    \/ /\ c.chat = 1
       /\ c.kind \in {"message", "direct"}
       /\ c.payload # None => c.payload[1].message_type = "command"
       /\ c.resp = None
       /\ c.dispatched # None => c.dispatched[1] \in RaceResponses
       /\ c.fault # Some("backend_transport")

InitRace ==
    /\ session_ids = [c \in Chats |-> None]
    /\ next_uuid = 1
    /\ user_roles = [c \in Chats |-> None]
    /\ last_bot_message = [d \in Dispatchers |-> [c \in Chats |-> None]]
    /\ next_message_id = 1
    /\ cyc = [p \in RaceCycles |-> IdleCycle]

RaceStart(p) ==
    /\ start_handler(p)
    /\ InRace(cyc'[p])

RaceHandlerResumes(p) ==
    /\ HandlerResumes(p)
    /\ InRace(cyc'[p])

RaceMessageDispatcherDispatch(p) ==
    /\ MessageDispatcherDispatch(p)
    /\ InRace(cyc'[p])

NextRace ==
    \E p \in RaceCycles :
        \/ RaceStart(p)
        \/ RaceHandlerResumes(p)
        \/ PlatformResponds(p)
        \/ HandlerReturns(p)
        \/ RaceMessageDispatcherDispatch(p)
        \/ MessageDispatcherReturns(p)

SpecRace == InitRace /\ [][NextRace]_vars

---------------------------------------------------------------------------
\* Menus: one update, answered with a show_menu or an edit_message whose data
\* carries a text and a list of button mappings, each key of which may be
\* missing.

MaxButtons == 2

ButtonCfgs ==
    {[text |-> t, callback_data |-> c] :
        t \in {None, Some("A"), Some("B")}, c \in {None, Some("x")}}

ButtonLists == UNION {[1..n -> ButtonCfgs] : n \in 0..MaxButtons}

MenuResponses ==
    {[action |-> Some(n), data |-> Data(m, t, b), user_role |-> None] :
        n \in {"show_menu", "edit_message"},
        m \in {None, Some(MaxExplicitId)},
        t \in {None, Some("hi")},
        b \in {None} \cup {Some(l) : l \in ButtonLists}}

MenuOutcomes == {[kind |-> "json", status |-> 200, body |-> r] : r \in MenuResponses}

MenuCycles == {1}

InitMenu ==
    /\ session_ids = [c \in Chats |-> None]
    /\ next_uuid = 1
    /\ user_roles = [c \in Chats |-> None]
    /\ last_bot_message = [d \in Dispatchers |-> [c \in Chats |-> None]]
    /\ next_message_id = 1
    /\ cyc = [p \in MenuCycles |-> IdleCycle]

MenuStart(p) ==
    /\ start_handler(p)
    /\ cyc'[p].kind = "message"

MenuHandlerResumes(p) ==
    /\ cyc[p].pc = "exchange"
    /\ \E outcome \in MenuOutcomes : ResumeWith(p, outcome)
    /\ UNCHANGED <<session_ids, next_uuid, next_message_id>>

MenuMessageDispatcherDispatch(p) ==
    /\ MayStart(p)
    /\ \E event \in Events, response \in MenuResponses : DispatchWith(p, event, response)
    /\ UNCHANGED <<session_ids, next_uuid, user_roles, next_message_id>>

NextMenu ==
    \E p \in MenuCycles :
        \/ MenuStart(p)
        \/ MenuHandlerResumes(p)
        \/ PlatformResponds(p)
        \/ HandlerReturns(p)
        \/ MenuMessageDispatcherDispatch(p)
        \/ MessageDispatcherReturns(p)

SpecMenu == InitMenu /\ [][NextMenu]_vars

---------------------------------------------------------------------------
\* What the claims speak of.

Ended(p) == cyc[p].pc \in {"done", "raised"}

\* The dispatcher a cycle uses, and of a step's new state.
DispatcherOf(c) == IF c.kind = "direct" THEN "MessageDispatcher" ELSE "ActionDispatcher"

\* The cache entry a cycle's dispatch resolves against.
CacheOf(c) == last_bot_message[DispatcherOf(c)][c.chat]

\* The step in which cycle p's dispatch begins (it runs up to the handler's
\* platform call, or to its end if it makes none).
DispatchBegins(p) == cyc[p].dispatched = None /\ cyc'[p].dispatched # None

\* The step in which cycle p's dispatch resumes with the platform's answer and
\* ends.
DispatchResumes(p) == cyc[p].pc = "call" /\ cyc[p].reply # None /\ cyc'[p] # cyc[p]

IsUnknownName(action) == action # None /\ action[1] \notin Registered

IsTargeted(action) == action \in {Some("edit_message"), Some("delete_message")}

\* Cycle p dispatched a delete_message whose data has no message_id.
CacheResolvedDelete(p) ==
    /\ cyc[p].dispatched # None
    /\ cyc[p].dispatched[1].action = Some("delete_message")
    /\ IsMapping(cyc[p].dispatched[1].data)
    /\ cyc[p].dispatched[1].data.message_id = None

\* A cycle for chat c is between its start and its end.
InFlight(c) == \E q \in DOMAIN cyc : cyc[q].chat = c /\ cyc[q].pc \notin {"idle", "done", "raised"}

\* The messages the platform created for chat c on a reply or show_menu of
\* dispatcher disp; ids grow in the order of creation.
SentBy(disp, c) ==
    {cyc[q].sent[1] : q \in {r \in DOMAIN cyc :
                                /\ cyc[r].sent # None
                                /\ cyc[r].chat = c
                                /\ DispatcherOf(cyc[r]) = disp
                                /\ cyc[r].issued[1].action \in {"reply", "show_menu"}}}

\* C1: a cycle whose backend exchange failed at transport level ends as a cycle
\* answered with {} does: the handler returns (no exception), no platform call
\* was issued by a dispatch, and a callback update was acknowledged.
C1_TransportFailureIsNoOp ==
    \A p \in Cycles :
        cyc[p].fault = Some("backend_transport")
            => /\ cyc[p].pc = "done"
               /\ cyc[p].issued = None
               /\ (cyc[p].kind = "callback" => cyc[p].acked)

\* C2: every callback cycle whose response reached dispatch has called
\* callback.answer() by the time it ends, whatever the dispatch did.
C2_CallbackAcknowledged ==
    \A p \in Cycles :
        (cyc[p].kind = "callback" /\ cyc[p].dispatched # None /\ Ended(p)) => cyc[p].acked

\* C3: in each dispatcher, a rejected send, edit or delete of a handler is
\* swallowed: no exception leaves dispatch, so the cycle does not end raised.
C3_PlatformFailureSwallowed ==
    \A p \in Cycles : cyc[p].fault = Some("handler_call") => cyc[p].pc # "raised"

\* C4: a dispatch whose action name is not exactly one of the five registered
\* names issues no platform call, changes no cache entry of any chat, and
\* returns to its caller without raising.
C4_UnknownActionIsNoOp ==
    [][\A p \in Cycles :
          (DispatchBegins(p) /\ IsUnknownName(cyc'[p].dispatched[1].action))
              => /\ cyc'[p].issued = None
                 /\ last_bot_message' = last_bot_message
                 /\ cyc'[p].pc \in {"done", "ack"}]_vars

\* C4's case: a cycle dispatched "Reply" for a chat whose cache holds a message.
C4_Witness ==
    \E p \in Cycles :
        /\ Ended(p)
        /\ cyc[p].dispatched # None
        /\ cyc[p].dispatched[1].action = Some("Reply")
        /\ CacheOf(cyc[p]) # None

\* C5: the first payload built for a chat allocates one new session id for it
\* and for no other chat, every payload carries its chat's session id, and an
\* allocated session id is never changed or removed.
C5_SessionIdStable ==
    /\ [](\A p \in Cycles :
            cyc[p].payload # None
                => Some(cyc[p].payload[1].session_id) = session_ids[cyc[p].payload[1].chat_id])
    /\ [][/\ \A c \in Chats : session_ids[c] # None => session_ids'[c] = session_ids[c]
          /\ \A p \in Cycles :
               (cyc[p].payload = None /\ cyc'[p].payload # None)
                   => LET chat_id == cyc'[p].payload[1].chat_id
                      IN  /\ Some(cyc'[p].payload[1].session_id) = session_ids'[chat_id]
                          /\ \A d \in Chats \ {chat_id} : session_ids'[d] = session_ids[d]
                          /\ session_ids[chat_id] = None
                                => \A d \in Chats : session_ids[d] # session_ids'[chat_id]]_vars

\* C5's case: a message payload and a callback payload of one chat are in
\* flight with the same session id, the other chat having a session of its own.
C5_Witness ==
    \E p, q \in Cycles :
        /\ cyc[p].payload # None /\ cyc[q].payload # None
        /\ cyc[p].payload[1].message_type = "text"
        /\ cyc[q].payload[1].message_type = "callback"
        /\ cyc[p].payload[1].chat_id = cyc[q].payload[1].chat_id
        /\ cyc[p].payload[1].session_id = cyc[q].payload[1].session_id

\* C6: an edit_message or delete_message dispatched with data.message_id
\* present, whatever integer it is, calls the platform with that id and leaves
\* the caches as they were; the cycle's later steps leave them too.
C6_ExplicitIdBypassesCache ==
    [][\A p \in Cycles :
          /\ (/\ DispatchBegins(p)
              /\ IsTargeted(cyc'[p].dispatched[1].action)
              /\ IsMapping(cyc'[p].dispatched[1].data)
              /\ cyc'[p].dispatched[1].data.message_id # None)
                => /\ cyc'[p].issued # None
                   /\ cyc'[p].issued[1].message_id = cyc'[p].dispatched[1].data.message_id
                   /\ last_bot_message' = last_bot_message
          /\ (/\ DispatchResumes(p)
              /\ IsTargeted(cyc[p].dispatched[1].action)
              /\ IsMapping(cyc[p].dispatched[1].data)
              /\ cyc[p].dispatched[1].data.message_id # None)
                => last_bot_message' = last_bot_message]_vars

\* C7: when a delete_message dispatched without data.message_id, for a chat
\* whose cache holds M, calls the platform, the call is against M; and when
\* that dispatch ends, the call having succeeded or failed, the chat's cache
\* entry is absent.
C7_CacheResolvedDeleteClearsEntry ==
    [][\A p \in DOMAIN cyc :
          /\ (/\ DispatchBegins(p)
              /\ cyc'[p].dispatched[1].action = Some("delete_message")
              /\ IsMapping(cyc'[p].dispatched[1].data)
              /\ cyc'[p].dispatched[1].data.message_id = None
              /\ last_bot_message[DispatcherOf(cyc'[p])][cyc'[p].chat] # None)
                => /\ cyc'[p].issued # None
                   /\ cyc'[p].issued[1].api = "delete_message"
                   /\ cyc'[p].issued[1].message_id =
                        last_bot_message[DispatcherOf(cyc'[p])][cyc'[p].chat]
          /\ (/\ DispatchResumes(p)
              /\ cyc[p].dispatched[1].action = Some("delete_message")
              /\ IsMapping(cyc[p].dispatched[1].data)
              /\ cyc[p].dispatched[1].data.message_id = None)
                => last_bot_message'[DispatcherOf(cyc[p])][cyc[p].chat] = None]_vars

\* C8: the step in which a send_photo dispatch resumes with the platform's
\* answer and ends leaves the last-message caches as they were.
C8_SendPhotoLeavesCache ==
    [][\A p \in Cycles :
          (DispatchResumes(p) /\ cyc[p].issued[1].action = "send_photo")
              => last_bot_message' = last_bot_message]_vars

\* C9: when a reply or show_menu dispatch resumes with the platform's answer
\* to a send that succeeded, it ends with the chat's cache entry holding the
\* message that answer returned, and changes no other entry.
C9_SendRecordsReturnedMessage ==
    [][\A p \in Cycles :
          (/\ DispatchResumes(p)
           /\ cyc[p].issued[1].action \in {"reply", "show_menu"}
           /\ cyc[p].reply[1].kind = "ok")
              => /\ cyc[p].reply[1].message # None
                 /\ last_bot_message' =
                      [last_bot_message EXCEPT ![DispatcherOf(cyc[p])][cyc[p].chat] =
                          cyc[p].reply[1].message]]_vars

\* C9's case: the only reply to a chat ended well and the chat's cache, empty
\* before, holds the one message the platform has created.
C9_Witness ==
    \E p \in Cycles :
        /\ cyc[p].pc = "done"
        /\ cyc[p].fault = None
        /\ cyc[p].dispatched[1].action = Some("reply")
        /\ next_message_id = 2
        /\ CacheOf(cyc[p]) = Some(1)
        /\ \A q \in Cycles \ {p} : cyc[q].pc = "idle"

\* C10: an edit_message or delete_message dispatched with a data mapping
\* that has no message_id,
\* for a chat whose cache entry is absent, issues no platform call, leaves the
\* caches as they were (the entry absent), and returns without raising.
C10_UnresolvedTargetIsNoOp ==
    [][\A p \in Cycles :
          (/\ DispatchBegins(p)
           /\ IsTargeted(cyc'[p].dispatched[1].action)
           /\ IsMapping(cyc'[p].dispatched[1].data)
           /\ cyc'[p].dispatched[1].data.message_id = None
           /\ last_bot_message[DispatcherOf(cyc'[p])][cyc'[p].chat] = None)
              => /\ cyc'[p].issued = None
                 /\ last_bot_message' = last_bot_message
                 /\ cyc'[p].pc \in {"done", "ack"}]_vars

\* C10's case: with no reply sent before, a delete_message and an
\* edit_message without message_id, for one chat and through one dispatcher,
\* both ended having called nothing, and the entry is absent.
C10_Witness ==
    \E p, q \in Cycles :
        /\ cyc[p].pc = "done" /\ cyc[q].pc = "done"
        /\ cyc[p].chat = cyc[q].chat
        /\ DispatcherOf(cyc[p]) = DispatcherOf(cyc[q])
        /\ cyc[p].dispatched[1] = Response(Some("delete_message"), None, None)
        /\ cyc[q].dispatched[1] = Response(Some("edit_message"), None, None)
        /\ cyc[p].issued = None /\ cyc[q].issued = None
        /\ CacheOf(cyc[q]) = None

\* C11: a dispatch whose action is a registered name and whose data is not a
\* mapping (null, a list, a string, a number) runs the handler as it would
\* for an empty mapping: it does not raise, and it issues the call the same
\* action issues for data = {}.
C11_NonMappingDataRunsAsEmpty ==
    [][\A p \in Cycles :
          (/\ DispatchBegins(p)
           /\ cyc'[p].dispatched[1].action \in {Some(n) : n \in Registered}
           /\ ~IsMapping(cyc'[p].dispatched[1].data))
              => /\ cyc'[p].pc # "raised"
                 /\ cyc'[p].fault = None
                 /\ (cyc'[p].dispatched[1].action \in {Some("reply"), Some("show_menu"), Some("send_photo")}
                        => cyc'[p].issued # None)]_vars

\* C12: dispatches for one chat exclude each other on the chat's cache entry:
\* from the step in which a cycle resolved its edit or delete target from the
\* cache until the platform has completed that call, no step of another cycle
\* for the same chat (and dispatcher) writes the entry or resolves a target
\* from it.
C12_SameChatDispatchesExclusive ==
    [][\A p, q \in DOMAIN cyc :
          (/\ p # q
           /\ cyc[p].pc = "call"
           /\ cyc[p].reply = None
           /\ IsTargeted(cyc[p].dispatched[1].action)
           /\ cyc[p].dispatched[1].data.message_id = None
           /\ cyc'[q] # cyc[q]
           /\ cyc'[q].chat = cyc[p].chat
           /\ DispatcherOf(cyc'[q]) = DispatcherOf(cyc[p]))
              => /\ last_bot_message'[DispatcherOf(cyc[p])][cyc[p].chat] =
                      last_bot_message[DispatcherOf(cyc[p])][cyc[p].chat]
                 /\ ~(/\ DispatchBegins(q)
                      /\ IsTargeted(cyc'[q].dispatched[1].action))]_vars

\* C13: every step of a cycle for chat c leaves the cache entries (of both
\* dispatchers) and the session id of every other chat unchanged, and every
\* platform call a cycle issues is addressed to the cycle's own chat.
C13_OtherChatsUntouched ==
    /\ [](\A p \in Cycles :
            /\ cyc[p].op # None => cyc[p].op[1].chat_id = cyc[p].chat
            /\ cyc[p].issued # None => cyc[p].issued[1].chat_id = cyc[p].chat)
    /\ [][\A p \in Cycles :
            cyc'[p] # cyc[p]
                => \A d \in Chats \ {cyc'[p].chat} :
                      /\ session_ids'[d] = session_ids[d]
                      /\ \A disp \in Dispatchers :
                            last_bot_message'[disp][d] = last_bot_message[disp][d]]_vars

\* C13's case: a reply to chat 1 and a delete_message without message_id
\* for chat 2 both went through the ActionDispatcher and ended; chat 1's
\* entry holds the reply, chat 2's is absent, each chat has its own session.
C13_Witness ==
    \E p, q \in Cycles :
        /\ cyc[p].pc = "done" /\ cyc[q].pc = "done"
        /\ cyc[p].kind = "message" /\ cyc[q].kind = "message"
        /\ cyc[p].chat = 1 /\ cyc[q].chat = 2
        /\ cyc[p].dispatched[1] = Response(Some("reply"), None, None)
        /\ cyc[q].dispatched[1] = Response(Some("delete_message"), None, None)
        /\ CacheOf(cyc[p]) # None
        /\ CacheOf(cyc[q]) = None
        /\ session_ids[1] # None /\ session_ids[2] # None
        /\ session_ids[1] # session_ids[2]

\* C14: an edit_message dispatch, its target given by data.message_id or
\* resolved from the cache, leaves the caches as they were, both in the step
\* that issues the call and in the step that resumes with the platform's
\* success; so edits without message_id keep targeting the same cached message.
C14_EditLeavesCache ==
    [][\A p \in DOMAIN cyc :
          /\ (/\ DispatchBegins(p)
              /\ cyc'[p].dispatched[1].action = Some("edit_message")
              /\ IsMapping(cyc'[p].dispatched[1].data))
                => last_bot_message' = last_bot_message
          /\ (/\ DispatchResumes(p)
              /\ cyc[p].issued[1].action = "edit_message"
              /\ cyc[p].reply[1].kind = "ok")
                => last_bot_message' = last_bot_message]_vars

\* C14's case: after a recorded reply, two edit_message dispatches without
\* message_id ended well, both were issued against the cached message, and
\* the entry still holds it.
C14_Witness ==
    \E r, p, q \in DOMAIN cyc :
        /\ p # q
        /\ cyc[r].pc = "done" /\ cyc[p].pc = "done" /\ cyc[q].pc = "done"
        /\ cyc[r].fault = None /\ cyc[p].fault = None /\ cyc[q].fault = None
        /\ cyc[r].dispatched[1] = Response(Some("reply"), None, None)
        /\ cyc[p].dispatched[1] = Response(Some("edit_message"), None, None)
        /\ cyc[q].dispatched[1] = Response(Some("edit_message"), None, None)
        /\ cyc[p].issued # None /\ cyc[q].issued # None
        /\ cyc[p].issued[1].message_id = CacheOf(cyc[r])
        /\ cyc[q].issued[1].message_id = CacheOf(cyc[r])
        /\ CacheOf(cyc[r]) # None

\* C15: whenever no cycle is in flight for chat c and a dispatcher's cache
\* entry for c is present, the entry is the most recent message sent to c by
\* a reply or show_menu of that dispatcher.
C15_CacheIsLatestSent ==
    \A disp \in Dispatchers, c \in Chats :
        (~InFlight(c) /\ last_bot_message[disp][c] # None)
            => /\ SentBy(disp, c) # {}
               /\ \A m \in SentBy(disp, c) : m <= last_bot_message[disp][c][1]

\* C16: a show_menu dispatched with a data mapping always sends (it does not
\* fail); with data.buttons absent or empty the send carries no options;
\* otherwise it carries one row per input button, in the input's order, each
\* row holding the one button whose text and callback_data are the input's,
\* or the empty string where the input has none.
C16_ShowMenuOneRowPerButton ==
    \A p \in DOMAIN cyc :
        (/\ cyc[p].dispatched # None
         /\ cyc[p].dispatched[1].action = Some("show_menu")
         /\ IsMapping(cyc[p].dispatched[1].data))
            => LET given == cyc[p].dispatched[1].data.buttons
               IN  /\ cyc[p].issued # None
                   /\ cyc[p].issued[1].api = "send_message"
                   /\ cyc[p].fault # Some("data_not_mapping")
                   /\ (given = None \/ given = Some(<<>>)) => cyc[p].issued[1].markup = None
                   /\ (given # None /\ given # Some(<<>>))
                        => /\ cyc[p].issued[1].markup # None
                           /\ LET rows == cyc[p].issued[1].markup[1]
                                  btns == given[1]
                              IN  /\ Len(rows) = Len(btns)
                                  /\ \A i \in 1..Len(btns) :
                                        /\ Len(rows[i]) = 1
                                        /\ rows[i][1].text =
                                             (IF btns[i].text = None THEN "" ELSE btns[i].text[1])
                                        /\ rows[i][1].callback_data =
                                             (IF btns[i].callback_data = None THEN ""
                                              ELSE btns[i].callback_data[1])

\* C16's case: a show_menu with two buttons, the first without callback_data
\* and the second without text, was sent with two rows.
C16_Witness ==
    \E p \in DOMAIN cyc :
        /\ cyc[p].pc = "done"
        /\ cyc[p].dispatched # None
        /\ cyc[p].dispatched[1].action = Some("show_menu")
        /\ cyc[p].dispatched[1].data.buttons =
             Some(<<[text |-> Some("A"), callback_data |-> None],
                    [text |-> None, callback_data |-> Some("x")]>>)
        /\ cyc[p].issued # None
        /\ cyc[p].issued[1].markup # None
        /\ Len(cyc[p].issued[1].markup[1]) = 2
        /\ cyc[p].sent # None

\* C17: in each dispatcher, an edit_message that calls the platform with
\* data.buttons present passes, next to the text, the options show_menu
\* builds from the same buttons: one single-button row per input button, in
\* order, and no options for an empty list.
C17_EditPassesButtons ==
    \A p \in DOMAIN cyc :
        (/\ cyc[p].issued # None
         /\ cyc[p].issued[1].action = "edit_message"
         /\ cyc[p].dispatched[1].data.buttons # None)
            => LET btns == cyc[p].dispatched[1].data.buttons[1]
                   data == cyc[p].dispatched[1].data
               IN  /\ cyc[p].issued[1].text = Some(IF data.text = None THEN "" ELSE data.text[1])
                   /\ btns = <<>> => cyc[p].issued[1].markup = None
                   /\ btns # <<>>
                        => /\ cyc[p].issued[1].markup # None
                           /\ Len(cyc[p].issued[1].markup[1]) = Len(btns)
                           /\ \A i \in 1..Len(btns) :
                                 cyc[p].issued[1].markup[1][i] =
                                    <<[text |-> IF btns[i].text = None THEN ""
                                                ELSE btns[i].text[1],
                                       callback_data |-> IF btns[i].callback_data = None THEN ""
                                                         ELSE btns[i].callback_data[1]]>>

\* C18: a message held by a cache is consumed by at most one delete_message
\* without message_id: no two such dispatches, overlapping or one after the
\* other, ever issue their delete call against the same message.
C18_CachedMessageDeletedOnce ==
    \A p, q \in DOMAIN cyc :
        (/\ p # q
         /\ CacheResolvedDelete(p) /\ CacheResolvedDelete(q)
         /\ cyc[p].issued # None /\ cyc[q].issued # None)
            => cyc[p].issued[1].message_id # cyc[q].issued[1].message_id

\* C18's case: a reply was recorded, and of two delete_message without
\* message_id through the same dispatcher, one in flight while the other was
\* dispatched, the first is issued against the reply's message and the
\* second issued no call.
C18_Witness ==
    \E r, p, q \in DOMAIN cyc :
        /\ p # q
        /\ cyc[r].sent # None
        /\ cyc[r].pc = "done"
        /\ DispatcherOf(cyc[p]) = DispatcherOf(cyc[r])
        /\ DispatcherOf(cyc[q]) = DispatcherOf(cyc[r])
        /\ CacheResolvedDelete(p) /\ CacheResolvedDelete(q)
        /\ cyc[p].pc = "call"
        /\ cyc[p].issued # None
        /\ cyc[p].issued[1].message_id = cyc[r].sent
        /\ cyc[q].pc = "done"
        /\ cyc[q].issued = None

\* C19: a handler whose response carries a non-empty user_role stores the
\* role for the chat when it resumes, and its dispatch begins only out of the
\* awaited role menu, the menu's message having been sent; no cache entry
\* ever holds a role menu's message, and no edit_message or delete_message
\* without message_id is ever issued against one.
C19_RoleMenuNeverCached ==
    /\ [](\A p, q \in Cycles :
            /\ (cyc[p].dispatched # None /\ TruthyStr(cyc[p].dispatched[1].user_role))
                  => cyc[p].menu # None
            /\ cyc[q].menu # None
                  => /\ \A disp \in Dispatchers, c \in Chats :
                           last_bot_message[disp][c] # cyc[q].menu
                     /\ (/\ cyc[p].issued # None
                         /\ IsTargeted(Some(cyc[p].issued[1].action))
                         /\ cyc[p].dispatched[1].data.message_id = None)
                           => cyc[p].issued[1].message_id # cyc[q].menu)
    /\ [][\A p \in Cycles :
            /\ (cyc[p].pc = "exchange" /\ cyc'[p].pc = "role_menu")
                  => /\ TruthyStr(cyc'[p].resp[1].user_role)
                     /\ user_roles'[cyc[p].chat] = cyc'[p].resp[1].user_role
                     /\ cyc'[p].dispatched = None
            /\ (DispatchBegins(p) /\ TruthyStr(cyc'[p].dispatched[1].user_role))
                  => /\ cyc[p].pc = "role_menu"
                     /\ cyc[p].reply # None
                     /\ cyc[p].reply[1].kind = "ok"
                     /\ cyc'[p].menu # None
                     /\ cyc'[p].menu = cyc[p].reply[1].message]_vars

\* C19's case: a cycle answered with a role and a reply sent the role menu
\* and then the reply, which the cache holds; a later edit_message without
\* message_id for the chat was issued against the reply, not the menu.
C19_Witness ==
    \E p, q \in Cycles :
        /\ cyc[p].pc = "done" /\ cyc[q].pc = "done"
        /\ cyc[p].chat = cyc[q].chat
        /\ cyc[p].dispatched[1] = Response(Some("reply"), None, Some("admin"))
        /\ user_roles[cyc[p].chat] = Some("admin")
        /\ cyc[p].menu # None /\ cyc[p].sent # None
        /\ cyc[p].menu[1] < cyc[p].sent[1]
        /\ CacheOf(cyc[p]) = cyc[p].sent
        /\ cyc[q].dispatched[1] = Response(Some("edit_message"), None, None)
        /\ cyc[q].issued # None
        /\ cyc[q].issued[1].message_id = cyc[p].sent

====
